---- MODULE Spec2Model ----
(***************************************************************************)
(* Model of online_meetings/report.py: the rate-limit retry loop           *)
(* (get_request_retry), the page counter (get_total_page_count), the       *)
(* pagination driver (zoom_loop) and the per-account / per-date iteration  *)
(* (run_report).  The remote HTTP server is the environment: every GET is  *)
(* answered by a response chosen from ServerResponses.                     *)
(***************************************************************************)
EXTENDS Integers, Sequences, FiniteSets, TLC

(***************************************************************************)
(* Bounds of the model.                                                    *)
(***************************************************************************)
\* 429 responses the server gives during one run
MaxRateLimits == 2
\* largest page_count a response announces
MaxPages == 2
\* page fetches of one zoom_loop call that the model follows
MaxFetch == 3
\* days between the earliest EARLIEST_FROM and today
MaxDays == 3
\* GETs of one run_report call that the model follows
MaxRequests == 4
\* accounts of ENV["ZOOM_CONFIG"]
Accounts == 2
\* characters of a duration string
MaxDuration == 5

(***************************************************************************)
(* Python values.  A value carries its type, so that truthiness,           *)
(* isinstance and the comparisons that raise TypeError behave as in Python.*)
(***************************************************************************)
PyNone == [t |-> "none"]
PyInt(n) == [t |-> "int", v |-> n]
PyStr(s) == [t |-> "str", v |-> s]
PyBool(b) == [t |-> "bool", v |-> b]

\* bool(x) of a Python value
Truthy(x) ==
    CASE x.t = "none" -> FALSE
      [] x.t = "int" -> x.v # 0
      [] x.t = "str" -> Len(x.v) > 0
      [] x.t = "bool" -> x.v

DigitChars == <<"0", "1", "2", "3", "4", "5", "6", "7", "8", "9">>

\* str.isdigit(): a non-empty string of decimal digits
IsDigit(s) == Len(s) > 0 /\ \A i \in 1..Len(s) : \E d \in 1..10 : DigitChars[d] = s[i]

DEFAULT_SLEEP_TIME == 10

\* the number a digit character stands for
DigitValue(c) == (CHOOSE d \in 1..10 : DigitChars[d] = c) - 1

\* int(s) accepts s: an optional sign and decimal digits (of the characters
\* DurationChars has; int also strips blanks and takes single underscores)
IsInt(s) ==
    IF Len(s) > 0 /\ s[1] \in {"-", "+"} THEN IsDigit(Tail(s)) ELSE IsDigit(s)

\* the value of a string of decimal digits
RECURSIVE Decimal(_)
Decimal(s) ==
    IF Len(s) = 0 THEN 0
    ELSE 10 * Decimal(SubSeq(s, 1, Len(s) - 1)) + DigitValue(s[Len(s)])

\* int(s) for a string int accepts
IntOf(s) ==
    IF s[1] = "-" THEN 0 - Decimal(Tail(s))
    ELSE IF s[1] = "+" THEN Decimal(Tail(s))
    ELSE Decimal(s)

\* s.split(':'): the pieces between the colons, at least one
RECURSIVE Split(_)
Split(s) ==
    IF \A i \in 1..Len(s) : s[i] # ":" THEN <<s>>
    ELSE LET c == CHOOSE i \in 1..Len(s) : s[i] = ":" /\ \A j \in 1..(i - 1) : s[j] # ":" IN
         <<SubSeq(s, 1, c - 1)>> \o Split(SubSeq(s, c + 1, Len(s)))

(***************************************************************************)
(* Calendar dates <<year, month, day>>, as datetime.date computes them.    *)
(***************************************************************************)
IsLeap(y) == (y % 4 = 0 /\ y % 100 # 0) \/ y % 400 = 0

DaysInMonth(y, m) ==
    IF m = 2 THEN (IF IsLeap(y) THEN 29 ELSE 28)
    ELSE IF m \in {4, 6, 9, 11} THEN 30 ELSE 31

\* date + timedelta(days=1)
NextDay(d) ==
    IF d[3] < DaysInMonth(d[1], d[2]) THEN <<d[1], d[2], d[3] + 1>>
    ELSE IF d[2] < 12 THEN <<d[1], d[2] + 1, 1>>
    ELSE <<d[1] + 1, 1, 1>>

\* date - timedelta(days=1)
PrevDay(d) ==
    IF d[3] > 1 THEN <<d[1], d[2], d[3] - 1>>
    ELSE IF d[2] > 1 THEN <<d[1], d[2] - 1, DaysInMonth(d[1], d[2] - 1)>>
    ELSE <<d[1] - 1, 12, 31>>

\* date + timedelta(days=n), n >= 0
RECURSIVE AddDays(_, _)
AddDays(d, n) == IF n = 0 THEN d ELSE AddDays(NextDay(d), n - 1)

\* date - timedelta(days=n), n >= 0
RECURSIVE SubDays(_, _)
SubDays(d, n) == IF n = 0 THEN d ELSE SubDays(PrevDay(d), n - 1)

DateBefore(a, b) ==
    \/ a[1] < b[1]
    \/ a[1] = b[1] /\ a[2] < b[2]
    \/ a[1] = b[1] /\ a[2] = b[2] /\ a[3] < b[3]

\* (b - a).days
RECURSIVE DaysBetween(_, _)
DaysBetween(a, b) ==
    IF a = b THEN 0
    ELSE IF DateBefore(a, b) THEN 1 + DaysBetween(NextDay(a), b)
    ELSE 0 - DaysBetween(b, a)

Digit(n) == DigitChars[n + 1]

\* str(date): YYYY-MM-DD
DateStr(d) ==
    PyStr(<<Digit(d[1] \div 1000), Digit((d[1] \div 100) % 10), Digit((d[1] \div 10) % 10),
            Digit(d[1] % 10), "-", Digit(d[2] \div 10), Digit(d[2] % 10), "-",
            Digit(d[3] \div 10), Digit(d[3] % 10)>>)

PyDate(d) == [t |-> "date", v |-> d]

(***************************************************************************)
(* HTTP responses.                                                         *)
(***************************************************************************)
too_many_requests == 429
ok == 200

\* values of the Retry-After header: absent, digits, not digits
RetryAfterValues == {PyNone, PyStr(<<"3">>), PyStr(<<"x">>)}

\* values of next_page_token in the body of the n-th page the server sends:
\* absent, empty, or the token that names the next page
TokenValues(n) == {PyNone, PyStr(<<>>), PyStr(<<DigitChars[n + 2]>>)}

\* record arrays in the body of the n-th page the host `u` sends: a record
\* holds a uuid and names the host it comes from
RecordArrays(n, u) == {<<>>, <<[uuid |-> n, host |-> u]>>}

NoBody == [json |-> FALSE]

\* the bodies that decode to a JSON object; a field the object lacks is PyNone
JsonObjects(n, u) ==
    [json : {TRUE},
     has_records : BOOLEAN,
     records : RecordArrays(n, u),
     page_count : {PyNone} \cup {PyInt(c) : c \in 0..MaxPages},
     next_page_token : TokenValues(n)]

\* the fields of a body that the code `who` reads: get_total_page_count reads
\* page_count alone (line 82) and zoom_loop reads the record array and
\* next_page_token (lines 167-171); a field that is not read is left out
Read(b, who) ==
    CASE who = "count" -> /\ ~b.has_records
                          /\ b.next_page_token = PyNone
      [] who = "loop" -> b.page_count = PyNone
      [] OTHER -> TRUE

Bodies(n, u, who) ==
    {NoBody} \cup {b \in JsonObjects(n, u) :
                      /\ b.has_records \/ b.records = <<>>
                      /\ Read(b, who)}

Response(s, h, b) == [status_code |-> s, retry_after |-> h, text |-> b]

RateLimitResponses == {Response(too_many_requests, h, NoBody) : h \in RetryAfterValues}

\* 200 with any body; 204 and 304 carry no body; 404 and 500 are errors
FinalResponses(n, u, who) ==
    {Response(ok, PyNone, b) : b \in Bodies(n, u, who)}
    \cup {Response(s, PyNone, NoBody) : s \in {204, 304, 404, 500}}

\* what the host `u` may answer to a GET of `who` for its n-th page while it
\* has `left` rate limits left
ServerResponses(left, n, u, who) ==
    IF left > 0 THEN RateLimitResponses \cup FinalResponses(n, u, who)
    ELSE FinalResponses(n, u, who)

\* Response.raise_for_status(): HTTPError for 4xx and 5xx, nothing otherwise
RaisesForStatus(s) == 400 <= s /\ s < 600

\* json.loads fails on the body
JSONDecodeError(r) == ~r.text.json

VARIABLES
    pc,          \* the statement the program is at
    caller,      \* who called get_request_retry: "top", "count" or "loop"
    limited,     \* rate limits the server has left
    requests_left, \* GETs the model still follows
    req,         \* get_request_retry: its arguments url and params
    response,    \* get_request_retry: response
    sleep_time,  \* get_request_retry: sleep_time
    gets,        \* the GETs this get_request_retry call has issued
    resps,       \* the responses this get_request_retry call has received
    waits,       \* the time.sleep calls this get_request_retry call completed
    raised,      \* the exception the last call ended with, "none" if it returned
    zcaller,     \* who called zoom_loop: "top", "date" or "single"
    url,         \* zoom_loop: url
    params,      \* zoom_loop: params
    page_token,  \* zoom_loop: page_token
    total_list,  \* zoom_loop: total_list
    total_page_count, \* zoom_loop: total_page_count
    zl_args,     \* the arguments this zoom_loop call was given
    counted,     \* how get_total_page_count has returned in this call, "no" if it has not
    fetches,     \* the params of each page fetch of this zoom_loop call
    pages,       \* the record arrays this zoom_loop call has appended
    default_params, \* run_report: default_params, which params is another name of
    page_size,   \* run_report: page_size
    report_page_token, \* run_report: page_token
    use_date,    \* run_report: use_date
    zoom_config, \* ENV["ZOOM_CONFIG"]: the EARLIEST_FROM of each account
    today,       \* datetime.now().date()
    zoom_key,    \* run_report: zoom_key
    zoom_list,   \* run_report: zoom_list
    early_date,  \* run_report: early_date
    day_index,   \* run_report: i, the next value of range(...)
    report_list, \* run_report: total_list
    invocations, \* the zoom_loop calls this run_report call has made
    duration,    \* to_seconds: duration
    components,  \* to_seconds: the items of duration.split(':') the loop has not visited
    total_seconds, \* to_seconds: total_seconds
    seconds      \* the value to_seconds returned, PyNone before it returns

retryVars == <<req, response, sleep_time, gets, resps, waits>>
loopVars == <<url, params, page_token, total_list, total_page_count, zl_args,
              counted, fetches, pages>>
reportRest == <<page_size, report_page_token, use_date, zoom_config, today,
                zoom_key, zoom_list, early_date, day_index, report_list, invocations>>
reportVars == <<default_params, reportRest>>
secondsVars == <<duration, components, total_seconds, seconds>>
vars == <<pc, caller, limited, requests_left, raised, retryVars, zcaller, loopVars,
          reportVars, secondsVars>>

NoResponse == Response(0, PyNone, NoBody)

\* a params mapping: a dict object, `id` tells the objects apart; two names
\* that hold a mapping with the same id hold the same object
Params(pn, tok, size, from, to) ==
    [id |-> 0, page_number |-> pn, next_page_token |-> tok, page_size |-> size,
     from |-> from, to |-> to]

\* what the name `holder` holds after the object `old` was changed to `new`:
\* the change shows through every name of that object
Store(holder, old, new) == IF holder.id = old.id THEN new ELSE holder

(***************************************************************************)
(* get_request_retry                                                       *)
(***************************************************************************)
\* the statement that follows a get_request_retry call in its caller
AfterRequest ==
    CASE caller = "top" -> "done"
      [] caller = "count" -> "tc_after"
      [] caller = "loop" -> "zl_after"

\* the state of a call of get_request_retry(url, auth, params) about to start
CallRequest(u, p, who) ==
    /\ pc' = "gr_get"
    /\ caller' = who
    /\ req' = [url |-> u, params |-> p]
    /\ response' = NoResponse
    /\ sleep_time' = PyNone
    /\ gets' = <<>>
    /\ resps' = <<>>
    /\ waits' = <<>>
    /\ raised' = "none"

\* the sleep time lines 52-60 choose for a 429 response
ChooseSleepTime(r) ==
    IF Truthy(r.retry_after) /\ IsDigit(r.retry_after.v)
    THEN r.retry_after
    ELSE PyInt(DEFAULT_SLEEP_TIME)

\* the exception lines 66-67 raise for a response, "none" if they raise none
FinalCheck(r) ==
    IF r.status_code # ok /\ RaisesForStatus(r.status_code) THEN "HTTPError" ELSE "none"

\* requests.get(url, params=params, auth=auth) is answered by `r`; a 429 sends
\* the call to the loop of line 61, any other response to lines 66-68, where
\* the call raises or returns
RequestsGet(r) ==
    /\ requests_left > 0
    /\ requests_left' = requests_left - 1
    /\ limited' = IF r.status_code = too_many_requests THEN limited - 1 ELSE limited
    /\ response' = r
    /\ gets' = Append(gets, req)
    /\ resps' = Append(resps, r)
    /\ IF r.status_code = too_many_requests
       THEN /\ pc' = "gr_while"
            /\ raised' = raised
       ELSE /\ pc' = AfterRequest
            /\ raised' = FinalCheck(r)

\* lines 47-60, and 66-68 when the response is no 429
FirstGet ==
    /\ pc = "gr_get"
    /\ \E r \in ServerResponses(limited, Len(fetches), req.url, caller) :
        /\ RequestsGet(r)
        /\ sleep_time' = IF r.status_code = too_many_requests
                         THEN ChooseSleepTime(r) ELSE sleep_time
    /\ UNCHANGED <<secondsVars, caller, req, waits, zcaller, loopVars, reportVars>>

\* time.sleep(x) accepts a number and raises TypeError for anything else
SleepRaises(x) == x.t # "int"

\* lines 61-63 with lines 52-60 repeated for every 429 response
SleepAndReissueRechoose ==
    /\ pc = "gr_while"
    /\ response.status_code = too_many_requests
    /\ ~SleepRaises(sleep_time)
    /\ waits' = Append(waits, sleep_time.v)
    /\ \E r \in ServerResponses(limited, Len(fetches), req.url, caller) :
        /\ RequestsGet(r)
        /\ sleep_time' = IF r.status_code = too_many_requests
                         THEN ChooseSleepTime(r) ELSE sleep_time
    /\ UNCHANGED <<secondsVars, caller, req, zcaller, loopVars, reportVars>>

\* lines 61-63, one turn of the loop: sleep and reissue; and 66-68 when the
\* response is no 429
SleepAndReissue ==
    /\ pc = "gr_while"
    /\ response.status_code = too_many_requests
    /\ ~SleepRaises(sleep_time)
    /\ waits' = Append(waits, sleep_time.v)
    /\ \E r \in ServerResponses(limited, Len(fetches), req.url, caller) : RequestsGet(r)
    /\ UNCHANGED <<secondsVars, caller, req, sleep_time, zcaller, loopVars, reportVars>>

\* line 62 when sleep_time is no number: time.sleep raises
SleepTypeError ==
    /\ pc = "gr_while"
    /\ response.status_code = too_many_requests
    /\ SleepRaises(sleep_time)
    /\ raised' = "TypeError"
    /\ pc' = AfterRequest
    /\ UNCHANGED <<secondsVars, caller, limited, requests_left, retryVars, zcaller, loopVars, reportVars>>

NextRetry ==
    \/ FirstGet
    \/ SleepAndReissue
    \/ SleepTypeError

\* the frame of the get_request_retry call that has ended is dropped
DropRequest ==
    /\ caller' = "top"
    /\ req' = [url |-> 0, params |-> Params(PyNone, PyNone, PyNone, PyNone, PyNone)]
    /\ response' = NoResponse
    /\ sleep_time' = PyNone
    /\ gets' = <<>>
    /\ resps' = <<>>
    /\ waits' = <<>>

(***************************************************************************)
(* get_total_page_count                                                    *)
(***************************************************************************)
\* the statement that follows a zoom_loop call in its caller
AfterLoop ==
    CASE zcaller = "top" -> "done"
      [] zcaller = "date" -> "rr_date_ret"
      [] zcaller = "single" -> "rr_single_ret"

\* line 153 made only when page_token is false
CountRequestUnlessToken ==
    /\ pc = "tc_call"
    /\ IF Truthy(page_token)
       THEN /\ pc' = "zl_while"
            /\ counted' = "page_count"
            /\ UNCHANGED <<caller, raised, retryVars, url, params, page_token, total_list,
                           total_page_count, zl_args, fetches, pages>>
       ELSE /\ CallRequest(url, params, "count")
            /\ UNCHANGED loopVars
    /\ UNCHANGED <<secondsVars, limited, requests_left, zcaller, reportVars>>

\* lines 74-76: the request of get_total_page_count
CountRequest ==
    /\ pc = "tc_call"
    /\ CallRequest(url, params, "count")
    /\ UNCHANGED <<secondsVars, limited, requests_left, zcaller, loopVars, reportVars>>

\* lines 77-86 with `return 1` in the place of the `return 0` of line 79
TotalPageCountOne(exc, r) ==
    CASE exc = "HTTPError" -> [raised |-> "none", value |-> 1]
      [] exc = "TypeError" -> [raised |-> "TypeError", value |-> 0]
      [] exc = "none" /\ JSONDecodeError(r) -> [raised |-> "none", value |-> 0]
      [] exc = "none" /\ ~JSONDecodeError(r) /\ r.text.page_count.t = "none" ->
            [raised |-> "KeyError", value |-> 0]
      [] OTHER -> [raised |-> "none", value |-> r.text.page_count.v]

\* lines 77-86: what get_total_page_count does with the outcome `exc` and the
\* response `r` of its request: the exception it ends with and the value it returns
TotalPageCount(exc, r) ==
    CASE exc = "HTTPError" -> [raised |-> "none", value |-> 0]
      [] exc = "TypeError" -> [raised |-> "TypeError", value |-> 0]
      [] exc = "none" /\ JSONDecodeError(r) -> [raised |-> "none", value |-> 0]
      [] exc = "none" /\ ~JSONDecodeError(r) /\ r.text.page_count.t = "none" ->
            [raised |-> "KeyError", value |-> 0]
      [] OTHER -> [raised |-> "none", value |-> r.text.page_count.v]

\* the return statement get_total_page_count leaves by, "no" if it raises
CountOutcome(exc, r) ==
    CASE TotalPageCount(exc, r).raised # "none" -> "no"
      [] exc = "HTTPError" -> "HTTPError"
      [] JSONDecodeError(r) -> "JSONDecodeError"
      [] OTHER -> "page_count"

\* lines 77-86 and the assignment of line 153; the response is not read again
CountReturn ==
    /\ pc = "tc_after"
    /\ LET out == TotalPageCount(raised, response) IN
        /\ raised' = out.raised
        /\ total_page_count' = out.value
        /\ counted' = CountOutcome(raised, response)
        /\ pc' = IF out.raised = "none" THEN "zl_while" ELSE AfterLoop
    /\ DropRequest
    /\ UNCHANGED <<secondsVars, limited, requests_left, zcaller, url, params, page_token,
                   total_list, zl_args, fetches, pages, reportVars>>

(***************************************************************************)
(* zoom_loop                                                               *)
(***************************************************************************)
\* the state of a call of zoom_loop(url, auth, json_attribute_name, params,
\* page_token) about to start (line 152)
CallZoomLoop(u, p, tok, who) ==
    /\ pc' = "tc_call"
    /\ zcaller' = who
    /\ url' = u
    /\ params' = p
    /\ page_token' = tok
    /\ total_list' = <<>>
    /\ total_page_count' = 0
    /\ zl_args' = [url |-> u, params |-> p, page_token |-> tok]
    /\ counted' = "no"
    /\ fetches' = <<>>
    /\ pages' = <<>>

\* line 156 with < in the place of <=
WhileConditionStrict(tok, p, count) ==
    IF Truthy(tok) THEN "true"
    ELSE IF p.page_number.t # "int" THEN "TypeError"
    ELSE IF p.page_number.v < count THEN "true" ELSE "false"

\* line 156: the loop condition; comparing None or a str with an int raises
WhileCondition(tok, p, count) ==
    IF Truthy(tok) THEN "true"
    ELSE IF p.page_number.t # "int" THEN "TypeError"
    ELSE IF p.page_number.v <= count THEN "true" ELSE "false"

\* lines 156-160: the loop goes on and fetches a page
FetchPage ==
    /\ pc = "zl_while"
    /\ WhileCondition(page_token, params, total_page_count) = "true"
    /\ Len(fetches) < MaxFetch
    /\ fetches' = Append(fetches, params)
    /\ CallRequest(url, params, "loop")
    /\ UNCHANGED <<secondsVars, limited, requests_left, zcaller, url, params, page_token, total_list,
                   total_page_count, zl_args, counted, pages, reportVars>>

\* lines 156 and 186: the loop ends (or its condition raises)
LoopExit ==
    /\ pc = "zl_while"
    /\ WhileCondition(page_token, params, total_page_count) # "true"
    /\ raised' = IF WhileCondition(page_token, params, total_page_count) = "false"
                 THEN "none" ELSE "TypeError"
    /\ pc' = AfterLoop
    /\ UNCHANGED <<secondsVars, caller, limited, requests_left, retryVars, zcaller, loopVars, reportVars>>

\* lines 171-181 with the page number tested before the token
AdvancePageFirst(b, tok, p) ==
    IF Truthy(p.page_number)
    THEN IF p.page_number.t = "int"
         THEN [raised |-> "none", continue |-> TRUE, page_token |-> tok,
               params |-> [p EXCEPT !.page_number = PyInt(p.page_number.v + 1)]]
         ELSE [raised |-> "TypeError", continue |-> FALSE, page_token |-> tok,
               params |-> p]
    ELSE IF Truthy(b.next_page_token)
    THEN [raised |-> "none", continue |-> TRUE, page_token |-> b.next_page_token,
          params |-> [p EXCEPT !.next_page_token = b.next_page_token]]
    ELSE [raised |-> "none", continue |-> FALSE, page_token |-> tok, params |-> p]

\* lines 171-181: how the loop advances after the body `b` was appended:
\* the exception raised, whether the loop goes on, the new page_token and params
Advance(b, tok, p) ==
    IF Truthy(b.next_page_token)
    THEN [raised |-> "none", continue |-> TRUE, page_token |-> b.next_page_token,
          params |-> [p EXCEPT !.next_page_token = b.next_page_token]]
    ELSE IF Truthy(p.page_number)
    THEN IF p.page_number.t = "int"
         THEN [raised |-> "none", continue |-> TRUE, page_token |-> tok,
               params |-> [p EXCEPT !.page_number = PyInt(p.page_number.v + 1)]]
         ELSE [raised |-> "TypeError", continue |-> FALSE, page_token |-> tok,
               params |-> p]
    ELSE [raised |-> "none", continue |-> FALSE, page_token |-> tok, params |-> p]

\* line 167: total_list.extend(results[json_attribute_name])
Extend(list, more) == list \o more

\* lines 161-185 with `continue` in the place of the `break` of line 163
ProcessPageRetry(exc, r, tok, p, list) ==
    CASE exc = "HTTPError" ->
            [raised |-> "none", continue |-> TRUE, page_token |-> tok,
             params |-> p, total_list |-> list, appended |-> FALSE]
      [] exc = "TypeError" ->
            [raised |-> "TypeError", continue |-> FALSE, page_token |-> tok,
             params |-> p, total_list |-> list, appended |-> FALSE]
      [] exc = "none" /\ JSONDecodeError(r) ->
            [raised |-> "none", continue |-> FALSE, page_token |-> tok,
             params |-> p, total_list |-> list, appended |-> FALSE]
      [] exc = "none" /\ ~JSONDecodeError(r) /\ ~r.text.has_records ->
            [raised |-> "KeyError", continue |-> FALSE, page_token |-> tok,
             params |-> p, total_list |-> list, appended |-> FALSE]
      [] OTHER ->
            LET a == Advance(r.text, tok, p) IN
            [raised |-> a.raised, continue |-> a.continue,
             page_token |-> a.page_token, params |-> a.params,
             total_list |-> Extend(list, r.text.records), appended |-> TRUE]

\* lines 161-185: what one turn of the loop does with the outcome `exc` and the
\* response `r` of its fetch
ProcessPage(exc, r, tok, p, list) ==
    CASE exc = "HTTPError" ->
            [raised |-> "none", continue |-> FALSE, page_token |-> tok,
             params |-> p, total_list |-> list, appended |-> FALSE]
      [] exc = "TypeError" ->
            [raised |-> "TypeError", continue |-> FALSE, page_token |-> tok,
             params |-> p, total_list |-> list, appended |-> FALSE]
      [] exc = "none" /\ JSONDecodeError(r) ->
            [raised |-> "none", continue |-> FALSE, page_token |-> tok,
             params |-> p, total_list |-> list, appended |-> FALSE]
      [] exc = "none" /\ ~JSONDecodeError(r) /\ ~r.text.has_records ->
            [raised |-> "KeyError", continue |-> FALSE, page_token |-> tok,
             params |-> p, total_list |-> list, appended |-> FALSE]
      [] OTHER ->
            LET a == Advance(r.text, tok, p) IN
            [raised |-> a.raised, continue |-> a.continue,
             page_token |-> a.page_token, params |-> a.params,
             total_list |-> Extend(list, r.text.records), appended |-> TRUE]

\* lines 161-185; the response is not read again
AfterFetch ==
    /\ pc = "zl_after"
    /\ LET out == ProcessPage(raised, response, page_token, params, total_list) IN
        /\ raised' = out.raised
        /\ page_token' = out.page_token
        /\ params' = out.params
        /\ default_params' = Store(default_params, params, out.params)
        /\ total_list' = out.total_list
        /\ pages' = IF out.appended THEN Append(pages, response.text.records) ELSE pages
        /\ pc' = IF out.continue THEN "zl_while" ELSE AfterLoop
    /\ DropRequest
    /\ UNCHANGED <<secondsVars, limited, requests_left, zcaller, url, total_page_count,
                   zl_args, counted, fetches, reportRest>>

NextLoop ==
    \/ CountRequest
    \/ CountReturn
    \/ FetchPage
    \/ LoopExit
    \/ AfterFetch
    \/ NextRetry

\* no get_request_retry call is in progress
NoRequest ==
    /\ caller = "top"
    /\ req = [url |-> 0, params |-> Params(PyNone, PyNone, PyNone, PyNone, PyNone)]
    /\ response = NoResponse
    /\ sleep_time = PyNone
    /\ gets = <<>>
    /\ resps = <<>>
    /\ waits = <<>>

\* no zoom_loop call is in progress
NoLoop ==
    /\ zcaller = "top"
    /\ url = 0
    /\ params = Params(PyNone, PyNone, PyNone, PyNone, PyNone)
    /\ page_token = PyBool(FALSE)
    /\ total_list = <<>>
    /\ total_page_count = 0
    /\ zl_args = [url |-> 0, params |-> params, page_token |-> page_token]
    /\ counted = "no"
    /\ fetches = <<>>
    /\ pages = <<>>

\* the frame of the zoom_loop call that has ended is dropped
DropLoop ==
    /\ zcaller' = "top"
    /\ url' = 0
    /\ params' = Params(PyNone, PyNone, PyNone, PyNone, PyNone)
    /\ page_token' = PyBool(FALSE)
    /\ total_list' = <<>>
    /\ total_page_count' = 0
    /\ zl_args' = [url |-> 0, params |-> Params(PyNone, PyNone, PyNone, PyNone, PyNone),
                   page_token |-> PyBool(FALSE)]
    /\ counted' = "no"
    /\ fetches' = <<>>
    /\ pages' = <<>>

(***************************************************************************)
(* run_report                                                              *)
(***************************************************************************)
\* lines 92-98
RunReportBegin ==
    /\ pc = "rr_begin"
    /\ default_params' =
          IF Truthy(page_size) THEN [default_params EXCEPT !.page_size = page_size]
          ELSE default_params
    /\ report_list' = <<>>
    /\ zoom_key' = 0
    /\ pc' = "rr_for"
    /\ UNCHANGED <<secondsVars, caller, limited, requests_left, raised, retryVars, zcaller, loopVars,
                   page_size, report_page_token, use_date, zoom_config, today, zoom_list,
                   early_date, day_index, invocations>>

\* line 108: the account is iterated by date
ByDate(k) == use_date /\ zoom_config[k].EARLIEST_FROM.t # "none"

\* params itself in the place of dict(params): the same object
DictAlias(p) == p

\* dict(params): a new object with the items of the mapping
Dict(p) == [p EXCEPT !.id = p.id + 1]

\* the call zoom_loop(url, auth, json_attribute_name, dict(params), page_token)
\* of lines 118 and 120 for account `k`
InvokeZoomLoop(k, p, who) ==
    /\ CallZoomLoop(k, Dict(p), PyBool(report_page_token), who)
    /\ invocations' = Append(invocations,
                             [zoom_key |-> k, params |-> Dict(p),
                              page_token |-> PyBool(report_page_token)])

\* lines 102-109: the next account, iterated by date
NextAccountByDate ==
    /\ pc = "rr_for"
    /\ zoom_key < Len(zoom_config)
    /\ ByDate(zoom_key + 1)
    /\ zoom_key' = zoom_key + 1
    /\ zoom_list' = <<>>
    /\ early_date' = zoom_config[zoom_key + 1].EARLIEST_FROM.v
    /\ day_index' = 0
    /\ pc' = "rr_date"
    /\ UNCHANGED <<secondsVars, caller, limited, requests_left, raised, retryVars, zcaller, loopVars,
                   default_params, page_size, report_page_token, use_date, zoom_config, today,
                   report_list, invocations>>

\* lines 102-108 and 120: the next account, fetched in one zoom_loop call
NextAccountSingle ==
    /\ pc = "rr_for"
    /\ zoom_key < Len(zoom_config)
    /\ ~ByDate(zoom_key + 1)
    /\ zoom_key' = zoom_key + 1
    /\ zoom_list' = <<>>
    /\ InvokeZoomLoop(zoom_key + 1, default_params, "single")
    /\ UNCHANGED <<secondsVars, caller, limited, requests_left, raised, retryVars,
                   default_params, page_size, report_page_token, use_date, zoom_config, today,
                   early_date, day_index, report_list>>

\* line 102: no account is left (lines 126-146 write the CSV)
ReportDone ==
    /\ pc = "rr_for"
    /\ zoom_key = Len(zoom_config)
    /\ pc' = "rr_output"
    /\ UNCHANGED <<secondsVars, caller, limited, requests_left, raised, retryVars, zcaller, loopVars,
                   reportVars>>

\* the dates range(...) of line 112 runs over
NumberOfDays(first, now) == DaysBetween(first, now)

\* lines 112-118: the next date
NextDate ==
    /\ pc = "rr_date"
    /\ day_index < NumberOfDays(early_date, today)
    /\ LET param_date == AddDays(early_date, day_index)
           p == [default_params EXCEPT !.from = DateStr(param_date),
                                       !.to = DateStr(param_date)] IN
        /\ default_params' = p
        /\ InvokeZoomLoop(zoom_key, p, "date")
    /\ day_index' = day_index + 1
    /\ UNCHANGED <<secondsVars, caller, limited, requests_left, raised, retryVars,
                   page_size, report_page_token, use_date, zoom_config, today, zoom_key,
                   zoom_list, early_date, report_list>>

\* line 112: no date is left
DatesDone ==
    /\ pc = "rr_date"
    /\ day_index >= NumberOfDays(early_date, today)
    /\ pc' = "rr_tag"
    /\ UNCHANGED <<secondsVars, caller, limited, requests_left, raised, retryVars, zcaller, loopVars,
                   reportVars>>

\* lines 118 and 120: zoom_list.extend(...) when zoom_loop returns; an
\* exception of zoom_loop ends run_report.  The frames of the calls that have
\* ended are gone.
ZoomLoopReturn ==
    /\ pc \in {"rr_date_ret", "rr_single_ret"}
    /\ IF raised = "none"
       THEN /\ zoom_list' = Extend(zoom_list, total_list)
            /\ pc' = IF pc = "rr_date_ret" THEN "rr_date" ELSE "rr_tag"
       ELSE /\ zoom_list' = zoom_list
            /\ pc' = "rr_raised"
    /\ DropLoop
    /\ UNCHANGED <<secondsVars, caller, retryVars, limited, requests_left, raised,
                   default_params, page_size, report_page_token, use_date, zoom_config, today,
                   zoom_key, early_date, day_index, report_list, invocations>>

\* line 123 with the index of the first account in the place of zoom_key
UpdateFirst(item, k) == [uuid |-> item.uuid, host |-> item.host, media_instance |-> 1]

\* line 123: list_item.update({"media_instance": zoom_key})
Update(item, k) == [uuid |-> item.uuid, host |-> item.host, media_instance |-> k]

\* lines 122-124
TagAccount ==
    /\ pc = "rr_tag"
    /\ report_list' =
          Extend(report_list, [n \in 1..Len(zoom_list) |-> Update(zoom_list[n], zoom_key)])
    /\ pc' = "rr_for"
    /\ UNCHANGED <<secondsVars, caller, limited, requests_left, raised, retryVars, zcaller, loopVars,
                   default_params, page_size, report_page_token, use_date, zoom_config, today,
                   zoom_key, zoom_list, early_date, day_index, invocations>>

NextReport ==
    \/ RunReportBegin
    \/ NextAccountByDate
    \/ NextAccountSingle
    \/ ReportDone
    \/ NextDate
    \/ DatesDone
    \/ ZoomLoopReturn
    \/ TagAccount

Next == NextReport \/ NextLoop

(***************************************************************************)
(* to_seconds                                                              *)
(***************************************************************************)
\* line 36 with 100 in the place of 60
AccumulateHundred(total, second) == total * 100 + IntOf(second)

\* line 36: total_seconds * 60 + int(second)
Accumulate(total, second) == total * 60 + IntOf(second)

\* lines 33-34: total_seconds = 0 and the split of the duration
ToSecondsBegin ==
    /\ pc = "ts_call"
    /\ total_seconds' = 0
    /\ components' = Split(duration)
    /\ pc' = "ts_for"
    /\ UNCHANGED <<caller, limited, requests_left, raised, retryVars, zcaller, loopVars,
                   reportVars, duration, seconds>>

\* lines 34-36: one turn of the loop for a component int accepts
ToSecondsComponent ==
    /\ pc = "ts_for"
    /\ Len(components) > 0
    /\ IsInt(Head(components))
    /\ total_seconds' = Accumulate(total_seconds, Head(components))
    /\ components' = Tail(components)
    /\ UNCHANGED <<pc, caller, limited, requests_left, raised, retryVars, zcaller, loopVars,
                   reportVars, duration, seconds>>

\* lines 36-40: int raises ValueError, which is caught: return 0
ToSecondsValueError ==
    /\ pc = "ts_for"
    /\ Len(components) > 0
    /\ ~IsInt(Head(components))
    /\ seconds' = PyInt(0)
    /\ pc' = "done"
    /\ UNCHANGED <<caller, limited, requests_left, raised, retryVars, zcaller, loopVars,
                   reportVars, duration, components, total_seconds>>

\* line 41: return total_seconds
ToSecondsReturn ==
    /\ pc = "ts_for"
    /\ Len(components) = 0
    /\ seconds' = PyInt(total_seconds)
    /\ pc' = "done"
    /\ UNCHANGED <<caller, limited, requests_left, raised, retryVars, zcaller, loopVars,
                   reportVars, duration, components, total_seconds>>

NextSeconds ==
    \/ ToSecondsBegin
    \/ ToSecondsComponent
    \/ ToSecondsValueError
    \/ ToSecondsReturn

\* no run_report call is in progress
NoReport ==
    /\ default_params = Params(PyNone, PyNone, PyNone, PyNone, PyNone)
    /\ page_size = PyNone
    /\ report_page_token = FALSE
    /\ use_date = FALSE
    /\ zoom_config = <<>>
    /\ today = <<2020, 3, 2>>
    /\ zoom_key = 0
    /\ zoom_list = <<>>
    /\ early_date = today
    /\ day_index = 0
    /\ report_list = <<>>
    /\ invocations = <<>>

\* no to_seconds call is in progress
NoSeconds ==
    /\ duration = <<>>
    /\ components = <<>>
    /\ total_seconds = 0
    /\ seconds = PyNone

\* the arguments one call of get_request_retry is given
Urls == {1, 2}
RetryParams ==
    {Params(pn, PyNone, PyInt(300), PyNone, PyNone) : pn \in {PyNone, PyInt(1)}}

InitRetry ==
    /\ pc = "gr_get"
    /\ caller = "top"
    /\ limited = MaxRateLimits
    /\ requests_left = MaxRateLimits + 1
    /\ req \in [url : Urls, params : RetryParams]
    /\ response = NoResponse
    /\ sleep_time = PyNone
    /\ gets = <<>>
    /\ resps = <<>>
    /\ waits = <<>>
    /\ raised = "none"
    /\ NoLoop
    /\ NoReport
    /\ NoSeconds

SpecRetry == InitRetry /\ [][NextRetry]_vars

\* the arguments one call of zoom_loop is given
LoopPageNumbers == {PyNone, PyInt(0), PyInt(1), PyStr(<<"1">>)}
LoopParams ==
    {Dict(Params(pn, PyNone, PyInt(300), PyNone, PyNone)) : pn \in LoopPageNumbers}

InitLoop ==
    /\ pc = "tc_call"
    /\ limited = MaxRateLimits - 1
    /\ requests_left = MaxFetch + MaxRateLimits
    /\ NoRequest
    /\ raised = "none"
    /\ zcaller = "top"
    /\ url = 1
    /\ params \in LoopParams
    /\ page_token \in {PyBool(TRUE), PyBool(FALSE)}
    /\ total_list = <<>>
    /\ total_page_count = 0
    /\ zl_args = [url |-> url, params |-> params, page_token |-> page_token]
    /\ counted = "no"
    /\ fetches = <<>>
    /\ pages = <<>>
    /\ NoReport
    /\ NoSeconds

SpecLoop == InitLoop /\ [][NextLoop]_vars

\* the arguments and the configuration of one call of run_report
ReportPageNumbers == {PyNone, PyInt(1)}
PageSizes == {PyInt(0), PyInt(300)}
EarliestFrom == {PyNone, PyDate(SubDays(<<2020, 3, 2>>, MaxDays))}

Init ==
    /\ pc = "rr_begin"
    /\ limited = MaxRateLimits - 1
    /\ requests_left = MaxRequests
    /\ NoRequest
    /\ raised = "none"
    /\ NoLoop
    /\ default_params \in
          {Params(pn, PyNone, PyNone, PyNone, PyNone) : pn \in ReportPageNumbers}
    /\ page_size \in PageSizes
    /\ report_page_token \in BOOLEAN
    /\ use_date \in BOOLEAN
    /\ zoom_config \in [1..Accounts -> [EARLIEST_FROM : EarliestFrom]]
    /\ today = <<2020, 3, 2>>
    /\ zoom_key = 0
    /\ zoom_list = <<>>
    /\ early_date = today
    /\ day_index = 0
    /\ report_list = <<>>
    /\ invocations = <<>>
    /\ NoSeconds

Spec == Init /\ [][Next]_vars

\* the duration strings one call of to_seconds is given
DurationChars == {"1", "5", ":", "x", "-"}
Durations == UNION {[1..n -> DurationChars] : n \in 0..MaxDuration}

InitSeconds ==
    /\ pc = "ts_call"
    /\ limited = 0
    /\ requests_left = 0
    /\ NoRequest
    /\ raised = "none"
    /\ NoLoop
    /\ NoReport
    /\ duration \in Durations
    /\ components = <<>>
    /\ total_seconds = 0
    /\ seconds = PyNone

SpecSeconds == InitSeconds /\ [][NextSeconds]_vars

(***************************************************************************)
(* Properties of get_request_retry, checked under SpecRetry.               *)
(***************************************************************************)
Last(s) == s[Len(s)]

\* a get_request_retry call has ended: it returned or raised
RequestEnded == pc = AfterRequest

RateLimited(r) == r.status_code = too_many_requests
Success(r) == 200 <= r.status_code /\ r.status_code < 300

\* the number of seconds a string of digits denotes
RECURSIVE Seconds(_)
Seconds(s) ==
    IF Len(s) = 0 THEN 0
    ELSE 10 * Seconds(SubSeq(s, 1, Len(s) - 1)) + DigitValue(s[Len(s)])

\* the seconds the Retry-After header of a 429 response asks for, the
\* configured default when the header is absent or not numeric
RequestedWait(r) ==
    IF r.retry_after.t = "str" /\ IsDigit(r.retry_after.v)
    THEN Seconds(r.retry_after.v)
    ELSE DEFAULT_SLEEP_TIME

\* C1: a call the server answers with k 429 responses and then a success
\* issues k+1 GETs, all with the url and params of the call, and returns the
\* success: the call does not end on a 429 response, and when its last
\* response is the success it has issued one GET per response and returns it.
C1_RetriesUntilSuccess ==
    RequestEnded =>
        /\ ~RateLimited(Last(resps))
        /\ Last(resps).status_code = ok =>
              /\ \A i \in 1..(Len(resps) - 1) : RateLimited(resps[i])
              /\ Len(gets) = Len(resps)
              /\ \A i \in 1..Len(gets) : gets[i] = req
              /\ raised = "none"
              /\ response = Last(resps)
        /\ raised = "none" => ~RateLimited(response)

\* C2: every wait before a reissued request lasts the Retry-After seconds of
\* the 429 response it follows when that header is numeric, else the default.
C2_WaitFollowsRetryAfter ==
    /\ Len(waits) = Len(gets) - (IF Len(gets) = 0 THEN 0 ELSE 1)
    /\ \A i \in 1..Len(waits) : waits[i] = RequestedWait(resps[i])

\* C3: a response that is neither 429 nor a success ends the call with an
\* HTTPError, and no request follows a response that is not 429.
C3_FailureIsFinal ==
    /\ \A i \in 1..(Len(resps) - 1) : RateLimited(resps[i])
    /\ (RequestEnded /\ ~RateLimited(Last(resps)) /\ ~Success(Last(resps)))
          => raised = "HTTPError"

(***************************************************************************)
(* Properties of get_total_page_count and zoom_loop, checked under         *)
(* SpecLoop.                                                               *)
(***************************************************************************)
RECURSIVE Concat(_)
Concat(ss) == IF Len(ss) = 0 THEN <<>> ELSE Concat(SubSeq(ss, 1, Len(ss) - 1)) \o Last(ss)

\* a zoom_loop call has ended: it returned or raised
LoopEnded == pc = AfterLoop

\* C4: get_total_page_count never fails: it returns 0 after an HTTPError, 0
\* for a body that is not JSON, 0 for an object without page_count, and the
\* page_count otherwise.
C4_PageCountNeverFails ==
    [][pc = "tc_after" =>
          /\ pc' = "zl_while"
          /\ raised' = "none"
          /\ total_page_count' =
                IF raised = "HTTPError" \/ JSONDecodeError(response)
                   \/ response.text.page_count.t = "none"
                THEN 0
                ELSE response.text.page_count.v]_vars

\* zoom_loop was called in page-number mode with page_number 1
PageNumberMode == zl_args.page_token = PyBool(FALSE) /\ zl_args.params.page_number = PyInt(1)

\* the page count was learned and every page fetched so far, but possibly the
\* one in flight, was a success without next_page_token
PlainPages ==
    /\ counted # "no"
    /\ params.next_page_token = PyNone
    /\ Len(pages) >= Len(fetches) - 1

\* C5: in page-number mode with successes that carry no token, the fetches
\* ask for pages 1, 2, ... in order, one fetch a page, none beyond
\* total_page_count; the call ends after page total_page_count and returns
\* the record arrays of the pages, concatenated in page order.
C5_PageNumberMode ==
    (PageNumberMode /\ PlainPages) =>
        /\ \A n \in 1..Len(fetches) : fetches[n].page_number = PyInt(n)
        /\ Len(fetches) <= total_page_count
        /\ total_list = Concat(pages)
        /\ (LoopEnded /\ Len(pages) = Len(fetches)) =>
              /\ raised = "none"
              /\ Len(fetches) = total_page_count

C5_Witness ==
    /\ PageNumberMode /\ PlainPages /\ LoopEnded
    /\ total_page_count = MaxPages
    /\ Len(pages) = MaxPages
    /\ Len(total_list) = MaxPages

\* zoom_loop was called in token mode
TokenMode == zl_args.page_token = PyBool(TRUE)

\* zoom_loop is about to handle a page fetch that was answered by a JSON
\* object with the record array
PageArrived ==
    /\ pc = "zl_after"
    /\ raised = "none"
    /\ response.status_code = ok
    /\ ~JSONDecodeError(response)
    /\ response.text.has_records

\* C6: in token mode the loop goes on with the token of a success that
\* carries one, which the next fetch sends, and after the first success that
\* omits next_page_token it ends and returns the accumulated records.
C6_TokenMode ==
    [][(TokenMode /\ PageArrived) =>
          IF Truthy(response.text.next_page_token)
          THEN /\ pc' = "zl_while"
               /\ params'.next_page_token = response.text.next_page_token
          ELSE /\ pc' = AfterLoop
               /\ raised' = "none"
               /\ total_list' = total_list \o response.text.records]_vars

\* C7: in page-number mode a success that carries next_page_token makes the
\* loop store the token in params, leave page_number as it is, and go on by
\* token, whatever the page count.
C7_TokenTakesPrecedence ==
    [][(zl_args.page_token = PyBool(FALSE) /\ PageArrived
          /\ Truthy(response.text.next_page_token)) =>
          /\ pc' = "zl_while"
          /\ raised' = "none"
          /\ params' = [params EXCEPT !.next_page_token = response.text.next_page_token]
          /\ page_token' = response.text.next_page_token
          /\ WhileCondition(page_token', params', total_page_count') = "true"]_vars

\* the second page in a row brought a token: the page number is still 1
C7_Witness ==
    /\ zl_args.page_token = PyBool(FALSE)
    /\ pc = "zl_while"
    /\ Len(fetches) = 2
    /\ Len(pages) = 2
    /\ Truthy(params.next_page_token)
    /\ params.page_number = PyInt(1)

\* zoom_loop is about to handle a page fetch that ended in an HTTPError or in
\* a body that is not JSON
PageFailed ==
    /\ pc = "zl_after"
    /\ \/ raised = "HTTPError"
       \/ raised = "none" /\ JSONDecodeError(response)

\* C8: a page fetch that ends in an HTTPError or a body that is not JSON ends
\* the loop: no request follows, and zoom_loop returns the records of the
\* pages fetched before.
C8_PartialResult ==
    [][PageFailed =>
          /\ pc' = AfterLoop
          /\ raised' = "none"
          /\ total_list' = Concat(pages)
          /\ Len(pages) = Len(fetches) - 1
          /\ pages' = pages]_vars

\* the third page failed after two pages of records
C8_Witness ==
    /\ LoopEnded
    /\ raised = "none"
    /\ Len(fetches) = 3
    /\ Len(pages) = 2
    /\ Len(total_list) = 2

\* C9: zoom_loop ends with an exception only for the page number that is no
\* integer; whatever else the server answers, it returns.
C9_OnlyFatalPropagates ==
    LoopEnded =>
        \/ raised = "none"
        \/ raised = "TypeError" /\ zl_args.params.page_number.t = "str"

(***************************************************************************)
(* Properties of run_report, checked under Spec.                           *)
(***************************************************************************)
\* the zoom_loop calls made for account k, in the order they were made
InvocationsOf(k) ==
    LET Mine(v) == v.zoom_key = k IN SelectSeq(invocations, Mine)

\* the days from the EARLIEST_FROM of account k up to yesterday, ascending
DaysOf(k) ==
    LET first == zoom_config[k].EARLIEST_FROM.v IN
    [n \in 1..DaysBetween(first, today) |-> AddDays(first, n - 1)]

\* run_report is through with account k
AccountOver(k) ==
    \/ zoom_key > k
    \/ zoom_key = k /\ pc \in {"rr_tag", "rr_for"}
    \/ pc \in {"rr_output", "rr_raised"}

\* C10: with use_date, for an account whose EARLIEST_FROM is before today,
\* zoom_loop is invoked once for each day from EARLIEST_FROM up to yesterday,
\* in ascending order, with "from" and "to" the date string of the day, and
\* not for today: 3 invocations for EARLIEST_FROM = today - 3 days.
C10_OneInvocationPerDay ==
    use_date =>
        \A k \in 1..Len(zoom_config) :
            (zoom_config[k].EARLIEST_FROM.t = "date"
               /\ DateBefore(zoom_config[k].EARLIEST_FROM.v, today)) =>
                /\ Len(InvocationsOf(k)) <= Len(DaysOf(k))
                /\ \A n \in 1..Len(InvocationsOf(k)) :
                      /\ InvocationsOf(k)[n].params.from = DateStr(DaysOf(k)[n])
                      /\ InvocationsOf(k)[n].params.to = DateStr(DaysOf(k)[n])
                /\ AccountOver(k) => Len(InvocationsOf(k)) = Len(DaysOf(k))

\* C11: every record run_report has accumulated is tagged with the index of
\* the account whose host returned it, and the records are listed in the
\* order of the accounts.
C11_AccountAnnotation ==
    /\ \A n \in 1..Len(report_list) : report_list[n].media_instance = report_list[n].host
    /\ \A m, n \in 1..Len(report_list) :
          m < n => report_list[m].media_instance <= report_list[n].media_instance

\* records of both accounts are accumulated
C11_Witness ==
    /\ Len(report_list) >= 2
    /\ report_list[1].host = 1
    /\ Last(report_list).host = 2

\* C12: the params of an invocation hold the from/to of its own iteration
\* alone: the date of one of the account's days for an account iterated by
\* date, and no from/to at all for an account without EARLIEST_FROM.
C12_NoLeakAcrossAccounts ==
    \A n \in 1..Len(invocations) :
        LET v == invocations[n] IN
        IF ByDate(v.zoom_key)
        THEN /\ v.params.from = v.params.to
             /\ \E d \in 1..Len(DaysOf(v.zoom_key)) :
                    v.params.from = DateStr(DaysOf(v.zoom_key)[d])
        ELSE /\ v.params.from = PyNone
             /\ v.params.to = PyNone

(***************************************************************************)
(* Further properties of zoom_loop, checked under SpecLoop.                *)
(***************************************************************************)
\* C14: once a token is stored in params the page number is not advanced
\* again: no fetch that follows a fetch sent with a token has another
\* page_number than that fetch.
C14_CommittedToToken ==
    \A m, n \in 1..Len(fetches) :
        (m < n /\ Truthy(fetches[m].next_page_token)) =>
            fetches[n].page_number = fetches[m].page_number

\* the GETs this zoom_loop call has issued
LoopRequests == (MaxFetch + MaxRateLimits) - requests_left

\* the server has answered no GET of this zoom_loop call with 429
NoRateLimit == limited = MaxRateLimits - 1

\* C15 as stated: the page-count request is made once when page_token is
\* false and not at all in token mode, where a call without rate limiting
\* issues as many GETs as it fetches pages.
C15_CountOnlyWithoutToken ==
    (LoopEnded /\ NoRateLimit) =>
        LoopRequests = Len(fetches) + (IF TokenMode THEN 0 ELSE 1)

\* C15, amended: the page-count request is made exactly once per call, before
\* any page fetch, in token mode too: a call without rate limiting issues
\* one GET more than it fetches pages.
C15_CountInEveryMode ==
    /\ pc = "tc_call" => LoopRequests = 0
    /\ caller = "count" => fetches = <<>>
    /\ (LoopEnded /\ NoRateLimit) => LoopRequests = Len(fetches) + 1

\* a call in token mode that fetched two pages has issued three GETs
C15_Witness ==
    /\ TokenMode /\ LoopEnded /\ NoRateLimit
    /\ raised = "none"
    /\ Len(fetches) = 2
    /\ Len(pages) = 2
    /\ LoopRequests = 3

\* C16: a call with page_token false and no page_number in params, whose
\* page count was returned, fetches exactly one page and, when that page is a
\* success without token, returns its records without exception.
C16_SingleShot ==
    (zl_args.page_token = PyBool(FALSE) /\ zl_args.params.page_number = PyNone
       /\ counted # "no" /\ LoopEnded) =>
        /\ Len(fetches) = 1
        /\ (Len(pages) = 1 /\ params.next_page_token = PyNone) =>
              /\ raised = "none"
              /\ total_list = pages[1]

\* C17: after a success without token, a page_number that is present in
\* params is incremented by 1 and the loop goes on when it is an integer, and
\* the call ends with TypeError when it is not.
C17_PageNumberAdvance ==
    [][(PageArrived /\ ~Truthy(response.text.next_page_token)
          /\ params.page_number # PyNone) =>
          IF params.page_number.t = "int"
          THEN /\ pc' = "zl_while"
               /\ raised' = "none"
               /\ params'.page_number = PyInt(params.page_number.v + 1)
          ELSE /\ pc' = AfterLoop
               /\ raised' = "TypeError"]_vars

\* C20: with page_token false and an integer page_number >= 1, a page count
\* that ended in an HTTPError or a body that is not JSON is taken as 0:
\* zoom_loop fetches no page and returns the empty list.
C20_NoCountNoFetch ==
    (zl_args.page_token = PyBool(FALSE)
       /\ zl_args.params.page_number.t = "int" /\ zl_args.params.page_number.v >= 1
       /\ counted \in {"HTTPError", "JSONDecodeError"}) =>
        /\ total_page_count = 0
        /\ fetches = <<>>
        /\ total_list = <<>>
        /\ pc \in {"zl_while", AfterLoop}
        /\ LoopEnded => raised = "none"

\* the call returned after a failed page count while the server would still
\* answer requests
C20_Witness ==
    /\ zl_args.page_token = PyBool(FALSE)
    /\ zl_args.params.page_number = PyInt(1)
    /\ counted = "HTTPError"
    /\ LoopEnded
    /\ requests_left > 0

(***************************************************************************)
(* Further properties of get_request_retry (SpecRetry) and of run_report   *)
(* (Spec).                                                                 *)
(***************************************************************************)
\* C19: the sleep time is the one the first 429 response asks for (its
\* Retry-After when numeric, else the default) for the whole call, and every
\* wait of the call lasts that time, whatever later 429 responses carry.
C19_SleepTimeChosenOnce ==
    (Len(resps) >= 1 /\ RateLimited(resps[1])) =>
        /\ sleep_time =
              IF resps[1].retry_after.t = "str" /\ IsDigit(resps[1].retry_after.v)
              THEN resps[1].retry_after
              ELSE PyInt(DEFAULT_SLEEP_TIME)
        /\ \A n \in 1..Len(waits) : waits[n] = sleep_time.v

\* two waits of the default time, the second after a 429 that asks for 3 s
C19_Witness ==
    /\ Len(resps) >= 2
    /\ resps[1].retry_after = PyNone
    /\ resps[2].retry_after = PyStr(<<"3">>)
    /\ waits = <<DEFAULT_SLEEP_TIME, DEFAULT_SLEEP_TIME>>

\* C18: no step changes the page_number or the next_page_token of the params
\* run_report holds, and every zoom_loop invocation is given that
\* page_number and no next_page_token.
C18_ParamsNotChangedByLoop ==
    [][/\ default_params'.page_number = default_params.page_number
       /\ default_params'.next_page_token = default_params.next_page_token
       /\ \A n \in 1..Len(invocations') :
             /\ invocations'[n].params.page_number = default_params.page_number
             /\ invocations'[n].params.next_page_token = PyNone]_vars

\* the second invocation has advanced its own page number, the params of
\* run_report still hold page 1
C18_Witness ==
    /\ Len(invocations) = 2
    /\ zcaller # "top"
    /\ params.page_number = PyInt(2)
    /\ default_params.page_number = PyInt(1)

(***************************************************************************)
(* Properties of to_seconds, checked under SpecSeconds.                    *)
(***************************************************************************)
\* the n-th of the three fields H, M, S of a duration of at most three
\* components, an absent leading field being 0
Field(parts, n) ==
    IF n + Len(parts) > 3 THEN IntOf(parts[n + Len(parts) - 3]) ELSE 0

\* C13: to_seconds returns (H*60+M)*60+S for a duration H:M:S, M:S or S of
\* integer components, and 0 for a duration with a component that is no
\* integer; it raises nothing.
C13_ToSeconds ==
    LET parts == Split(duration) IN
    /\ pc = "done" =>
          IF \A n \in 1..Len(parts) : IsInt(parts[n])
          THEN Len(parts) <= 3 =>
                  seconds = PyInt((Field(parts, 1) * 60 + Field(parts, 2)) * 60
                                  + Field(parts, 3))
          ELSE seconds = PyInt(0)
    /\ raised = "none"

\* 1:1:1 is 3661 seconds
C13_Witness ==
    /\ pc = "done"
    /\ duration = <<"1", ":", "1", ":", "1">>
    /\ seconds = PyInt(3661)

====
